---- MODULE Spec2Model ----
(***************************************************************************)
(* Model of docs/scripts/print_release_issues.py (paginated JIRA search,   *)
(* grouping by issue type, release-note formatting) and of                 *)
(* synapseclient/api/annotations.py (set_annotations: one PUT).            *)
(*                                                                         *)
(* Python strings that the code builds, compares or measures are modelled  *)
(* as sequences of one-character strings, so that concatenation, len(),    *)
(* str.format, sorted() and the line structure of the printed text are     *)
(* computed, not assumed.                                                  *)
(***************************************************************************)
EXTENDS Integers, Sequences, FiniteSets, TLC

VARIABLES
    sample_string,      \* the credential string of line 45 ("username:token")
    format_type,        \* args.format
    pc,                 \* position of main / _get_issues
    start_at,           \* _get_issues: start_at
    issues_by_type,     \* _get_issues: dict, as its entries in insertion order
    requests,           \* the requests client.get has sent, in order
    response,           \* the response client.get is returning
    pages,              \* the issue lists of the 200 pages accepted so far
    result,             \* what _get_issues returned (the OrderedDict)
    err,                \* the exception that left _get_issues
    out,                \* the characters written to stdout
    printed,            \* print_issues: groups already printed
    server,             \* how the search endpoint behaves: "any" or "list"
    held,               \* the matching issues a "list" endpoint holds
    annotations,        \* set_annotations: the Annotations argument
    synapse_client,     \* set_annotations: the client argument
    opentelemetry_context, \* set_annotations: the trace context argument
    apc,                \* position of set_annotations
    puts,               \* the restPUT calls issued, in order
    put_response,       \* what restPUT returned
    aresult,            \* what set_annotations returned
    aerr                \* the exception that left set_annotations

scriptVars == <<sample_string, format_type, pc, start_at, issues_by_type,
                requests, response, pages, result, err, out, printed, server,
                held>>
annVars == <<annotations, synapse_client, opentelemetry_context, apc, puts,
             put_response, aresult, aerr>>
vars == <<scriptVars, annVars>>

None == "None"

----------------------------------------------------------------------------
(* Bounds *)
MaxStart == 3       \* the model stops the server at this many issues served
MaxPageLen == 2     \* longest page the server sends
MaxN == 3           \* longest list the finite server holds

----------------------------------------------------------------------------
(* Strings *)

\* U+0060 (grave accent), which a TLA+ string literal cannot contain
Grave == "GRAVE"

Ascii == <<" ", "!", "\"", "#", "$", "%", "&", "'", "(", ")", "*", "+", ",", "-", ".", "/", "0", "1", "2", "3", "4", "5", "6", "7", "8", "9", ":", ";", "<", "=", ">", "?", "@", "A", "B", "C", "D", "E", "F", "G", "H", "I", "J", "K", "L", "M", "N", "O", "P", "Q", "R", "S", "T", "U", "V", "W", "X", "Y", "Z", "[", "\\", "]", "^", "_", Grave, "a", "b", "c", "d", "e", "f", "g", "h", "i", "j", "k", "l", "m", "n", "o", "p", "q", "r", "s", "t", "u", "v", "w", "x", "y", "z", "{", "|", "}", "~">>

\* ord(c) for the printable ASCII characters and the newline
Ord(c) == IF c = "\n" THEN 10
          ELSE 31 + (CHOOSE i \in 1..Len(Ascii) : Ascii[i] = c)

\* Python's str.__lt__: lexicographic by code point, a proper prefix is smaller
RECURSIVE StrLess(_, _)
StrLess(a, b) ==
    IF b = <<>> THEN FALSE
    ELSE IF a = <<>> THEN TRUE
    ELSE IF Head(a) = Head(b) THEN StrLess(Tail(a), Tail(b))
    ELSE Ord(Head(a)) < Ord(Head(b))

\* c in s
Contains(s, c) == \E i \in 1..Len(s) : s[i] = c

\* s.index(c): the index of the first occurrence of character c in s
IndexOf(s, c) ==
    CHOOSE i \in 1..Len(s) : s[i] = c /\ \A j \in 1..i - 1 : s[j] /= c

\* str.format(**args) for templates whose fields are plain names: the text
\* up to the first field, the value of the field, the rest formatted
RECURSIVE StrFormat(_, _)
StrFormat(t, args) ==
    IF ~Contains(t, "{") THEN t
    ELSE SubSeq(t, 1, IndexOf(t, "{") - 1)
           \o args[SubSeq(t, IndexOf(t, "{") + 1, IndexOf(t, "}") - 1)]
           \o StrFormat(SubSeq(t, IndexOf(t, "}") + 1, Len(t)), args)

\* sorted(s, reverse=True)
Sorted_desc(s) ==
    [i \in 1..Len(s) |->
        CHOOSE k \in { s[j] : j \in 1..Len(s) } :
            Cardinality({ j \in 1..Len(s) : StrLess(k, s[j]) }) = i - 1]

\* sorted(s) for a list of distinct strings: the i-th element of the result
\* is the one with i-1 smaller elements
Sorted(s) ==
    [i \in 1..Len(s) |->
        CHOOSE k \in { s[j] : j \in 1..Len(s) } :
            Cardinality({ j \in 1..Len(s) : StrLess(s[j], k) }) = i - 1]

\* print(x, file=file): the text followed by a newline
Print1(x) == x \o <<"\n">>

----------------------------------------------------------------------------
(* Module constants of print_release_issues.py *)

ISSUE_URL_PREFIX == <<"h", "t", "t", "p", "s", ":", "/", "/", "s", "a", "g", "e", "b", "i", "o", "n", "e", "t", "w", "o", "r", "k", "s", ".", "j", "i", "r", "a", ".", "c", "o", "m", "/", "b", "r", "o", "w", "s", "e", "/", "{", "k", "e", "y", "}">>

RST_ISSUE_FORMAT == <<"-", " ", " ", "[", Grave, "{", "k", "e", "y", "}", " ", "<", "{", "u", "r", "l", "}", ">", Grave, "_", "_", "]", " ", "-", "\n", " ", " ", " ", "{", "s", "u", "m", "m", "a", "r", "y", "}">>

GITHUB_ISSUE_FORMAT == <<"-", " ", " ", "\\", "[", "[", "{", "k", "e", "y", "}", "]", "(", "{", "u", "r", "l", "}", ")", "\\", "]", " ", "-", " ", "{", "s", "u", "m", "m", "a", "r", "y", "}">>

MARKDOWN_FORMAT == <<"-", " ", " ", "\\", "[", "[", "{", "k", "e", "y", "}", "]", "(", "{", "u", "r", "l", "}", ")", "\\", "]", " ", "-", " ", "{", "s", "u", "m", "m", "a", "r", "y", "}">>

\* JQL_ISSUE_URL.format(...): the URL is determined by, and determines, the
\* three values substituted into it; the request is recorded by those values
JQL_ISSUE_URL(project, version, startAt) ==
    [project |-> project, fixVersion |-> version, startAt |-> startAt]

Project == "SYNPY"
Version == "py-2.4"

----------------------------------------------------------------------------
(* The data the search endpoint serves *)

Issue(key, type, summary) ==
    [key |-> key, fields |-> [issuetype |-> [name |-> type], summary |-> summary]]

Task == <<"T", "a", "s", "k">>
Bug == <<"B", "u", "g">>
Story == <<"S", "t", "o", "r", "y">>

Issues == { Issue(<<"S", "-", "1">>, Task, <<"a", "d", "d">>),
            Issue(<<"S", "-", "2">>, Bug, <<"f", "i", "x">>),
            Issue(<<"S", "-", "3">>, Task, <<"d", "o", "c">>),
            Issue(<<"S", "-", "4">>, Story, <<"n", "e", "w">>) }

SeqsUpTo(S, n) == UNION { [1..k -> S] : k \in 0..n }

\* A response body is either JSON text (kept as the value it parses to) or
\* text that is not JSON
JsonBody(v) == [kind |-> "json", value |-> v]
TextBody(t) == [kind |-> "text", value |-> t]

PageBody(is) == JsonBody([issues |-> is])
ErrorBody == JsonBody([errorMessages |-> <<"e">>])
HtmlBody == TextBody(<<"<", "h", "1", ">">>)

Response(status, body) == [status_code |-> status, body |-> body]

NoResponse == [status_code |-> 0, body |-> TextBody(<<>>)]

\* json.loads(text)
IsJson(body) == body.kind = "json"
json_loads(body) == body.value

----------------------------------------------------------------------------
(* dict with insertion order: a sequence of entries [k, v] with distinct k *)

Keys(d) == [i \in 1..Len(d) |-> d[i].k]
HasKey(d, k) == \E i \in 1..Len(d) : d[i].k = k
Get(d, k) == d[CHOOSE i \in 1..Len(d) : d[i].k = k].v

\* issues_by_type.setdefault(issue_type, []).append(issue)
SetDefaultAppend(d, k, x) ==
    IF HasKey(d, k)
    THEN [i \in 1..Len(d) |-> IF d[i].k = k
                              THEN [k |-> k, v |-> Append(d[i].v, x)]
                              ELSE d[i]]
    ELSE Append(d, [k |-> k, v |-> <<x>>])

\* the for loop over one page (lines 66-69)
RECURSIVE Accumulate(_, _)
Accumulate(d, is) ==
    IF is = <<>> THEN d
    ELSE Accumulate(SetDefaultAppend(d, Head(is).fields.issuetype.name, Head(is)),
                    Tail(is))

\* the dict returned as accumulated, in arrival order of the types
OrderByType_unsorted(d) == d

\* lines 73-76: the OrderedDict filled in sorted key order
OrderByType(d) ==
    LET issue_types == Sorted(Keys(d))
    IN [i \in 1..Len(issue_types) |->
            [k |-> issue_types[i], v |-> Get(d, issue_types[i])]]

----------------------------------------------------------------------------
(* _get_issues *)

\* stopping at a short page instead of an empty one
PageEmpty_short(issues) == Len(issues) <= 1

\* line 63: "if not issues"
PageEmpty(issues) == issues = <<>>

\* advancing by one page instead of by the number of issues
NextStart_one(start, issues) == start + 1

\* line 71: start_at += len(issues)
NextStart(start, issues) == start + Len(issues)

RuntimeError(msg) == [exc |-> "RuntimeError", msg |-> msg]
NoError == [exc |-> None, msg |-> <<>>]

\* the request sent before the credentials are looked at
SendRequest_checkAfter ==
    /\ pc = "loop"
    /\ requests' = Append(requests, JQL_ISSUE_URL(Project, Version, start_at))
    /\ IF sample_string = <<>>
       THEN /\ err' = RuntimeError(<<"As of May 2024 you must authenticate">>)
            /\ pc' = "raised"
       ELSE /\ pc' = "get"
            /\ UNCHANGED err
    /\ UNCHANGED <<sample_string, format_type, start_at, issues_by_type, response,
                   pages, result, out, printed, server, held, annVars>>

\* lines 35-54: the top of the loop up to the blocking client.get
SendRequest ==
    /\ pc = "loop"
    /\ IF sample_string = <<>>
       THEN /\ err' = RuntimeError(<<"As of May 2024 you must authenticate">>)
            /\ pc' = "raised"
            /\ UNCHANGED requests
       ELSE /\ requests' = Append(requests, JQL_ISSUE_URL(Project, Version, start_at))
            /\ pc' = "get"
            /\ UNCHANGED err
    /\ UNCHANGED <<sample_string, format_type, start_at, issues_by_type, response,
                   pages, result, out, printed, server, held, annVars>>

\* the search endpoint answers with any status and any body
Respond ==
    /\ pc = "get"
    /\ server = "any"
    /\ \E status \in {200, 404},
          body \in { PageBody(is) : is \in SeqsUpTo(Issues, MaxPageLen) }
                     \cup {ErrorBody, HtmlBody} :
          /\ IsJson(body) /\ "issues" \in DOMAIN body.value
                => start_at + Len(body.value.issues) <= MaxStart
          /\ response' = Response(status, body)
    /\ pc' = "got"
    /\ UNCHANGED <<sample_string, format_type, start_at, issues_by_type, requests,
                   pages, result, err, out, printed, server, held, annVars>>

\* lines 55-78: from the response to the next iteration, the raise or the return
HandleResponse ==
    /\ pc = "got"
    /\ IF ~IsJson(response.body)
       THEN \* json.loads raises
            /\ err' = [exc |-> "JSONDecodeError", msg |-> <<>>]
            /\ pc' = "raised"
            /\ UNCHANGED <<start_at, issues_by_type, pages, result>>
       ELSE IF response.status_code /= 200
       THEN /\ err' = RuntimeError(<<"Failed to get issues from JIRA:",
                                      response.status_code, response.body>>)
            /\ pc' = "raised"
            /\ UNCHANGED <<start_at, issues_by_type, pages, result>>
       ELSE IF "issues" \notin DOMAIN json_loads(response.body)
       THEN /\ err' = [exc |-> "KeyError", msg |-> <<"issues">>]
            /\ pc' = "raised"
            /\ UNCHANGED <<start_at, issues_by_type, pages, result>>
       ELSE LET issues == json_loads(response.body).issues
            IN /\ pages' = Append(pages, issues)
               /\ IF PageEmpty(issues)
                  THEN /\ result' = OrderByType(issues_by_type)
                       /\ pc' = "print"
                       /\ UNCHANGED <<start_at, issues_by_type, err>>
                  ELSE /\ issues_by_type' = Accumulate(issues_by_type, issues)
                       /\ start_at' = NextStart(start_at, issues)
                       /\ pc' = "loop"
                       /\ UNCHANGED <<result, err>>
    /\ UNCHANGED <<sample_string, format_type, requests, response, out, printed,
                   server, held, annVars>>

----------------------------------------------------------------------------
(* print_issues *)

Md(title, fmt) == IF fmt = "md" THEN <<"#", "#", "#", " ">> \o title ELSE title

\* no special case for "Story"
_pluralize_issue_type_plain(issue_type, fmt) ==
    IF issue_type = Bug
    THEN Md(<<"B", "u", "g", " ", "F", "i", "x", "e", "s">>, fmt)
    ELSE Md(issue_type \o <<"s">>, fmt)

_pluralize_issue_type(issue_type, fmt) ==
    IF issue_type = Bug
    THEN Md(<<"B", "u", "g", " ", "F", "i", "x", "e", "s">>, fmt)
    ELSE IF issue_type = Story
    THEN Md(<<"S", "t", "o", "r", "i", "e", "s">>, fmt)
    ELSE Md(issue_type \o <<"s">>, fmt)

\* "-" * n
Dashes(n) == [i \in 1..n |-> "-"]

\* main, lines 141-146
IssueFormat(fmt) ==
    IF fmt = "md" THEN MARKDOWN_FORMAT
    ELSE IF fmt = "rst" THEN RST_ISSUE_FORMAT
    ELSE GITHUB_ISSUE_FORMAT

K_key == <<"k", "e", "y">>
K_url == <<"u", "r", "l">>
K_summary == <<"s", "u", "m", "m", "a", "r", "y">>

\* the key used where the browse URL belongs
IssueLine_keyAsUrl(issue, issue_format) ==
    StrFormat(issue_format, (K_key :> issue.key) @@ (K_url :> issue.key)
                                @@ (K_summary :> issue.fields.summary))

\* lines 109-117: the text printed for one issue
IssueLine(issue, issue_format) ==
    LET issue_key == issue.key
        issue_url == StrFormat(ISSUE_URL_PREFIX, (K_key :> issue_key))
        issue_summary == issue.fields.summary
    IN StrFormat(issue_format, (K_key :> issue_key) @@ (K_url :> issue_url)
                                   @@ (K_summary :> issue_summary))

RECURSIVE IssueLines(_, _)
IssueLines(issues, issue_format) ==
    IF issues = <<>> THEN <<>>
    ELSE Print1(IssueLine(Head(issues), issue_format))
             \o IssueLines(Tail(issues), issue_format)

\* Whether the underline of line 106 is printed
Underlined(fmt) == fmt /= "md"

\* lines 101-120: everything one iteration of the outer loop prints
GroupText(entry, issue_format, fmt) ==
    LET issue_type_plural == _pluralize_issue_type(entry.k, fmt)
    IN Print1(issue_type_plural)
         \o (IF Underlined(fmt) THEN Print1(Dashes(Len(issue_type_plural)))
             ELSE <<>>)
         \o IssueLines(entry.v, issue_format)
         \o Print1(<<>>)

\* one iteration of the loop of print_issues over issues_by_type.items()
PrintGroup ==
    /\ pc = "print"
    /\ printed < Len(result)
    /\ out' = out \o GroupText(result[printed + 1], IssueFormat(format_type),
                               format_type)
    /\ printed' = printed + 1
    /\ UNCHANGED <<sample_string, format_type, pc, start_at, issues_by_type,
                   requests, response, pages, result, err, server, held, annVars>>

\* the loop of print_issues is exhausted and main returns
MainExit ==
    /\ pc = "print"
    /\ printed = Len(result)
    /\ pc' = "exit"
    /\ UNCHANGED <<sample_string, format_type, start_at, issues_by_type,
                   requests, response, pages, result, err, out, printed, server,
                   held, annVars>>

----------------------------------------------------------------------------
(* A search endpoint that holds a finite list of matching issues and serves *)
(* it in pages: non-empty below the end of the list, empty from there on    *)

Min(a, b) == IF a < b THEN a ELSE b

RespondFromList ==
    /\ pc = "get"
    /\ server = "list"
    /\ IF start_at < Len(held)
       THEN \E n \in 1..Min(MaxPageLen, Len(held) - start_at) :
              response' = Response(200, PageBody(SubSeq(held, start_at + 1,
                                                        start_at + n)))
       ELSE response' = Response(200, PageBody(<<>>))
    /\ pc' = "got"
    /\ UNCHANGED <<sample_string, format_type, start_at, issues_by_type, requests,
                   pages, result, err, out, printed, server, held, annVars>>

----------------------------------------------------------------------------
(* synapseclient/api/annotations.py *)

\* Python values of an annotation: a str or an int (by its digits), or a
\* list of them; the annotations dict is its entries [k, v] in order
Str(x) == [py |-> "str", v |-> x]
IntV(x) == [py |-> "int", v |-> x]
List(t, xs) == [py |-> "list:" \o t, v |-> xs]

\* dataclasses.asdict of the Annotations record: a dict with a copy of
\* each field
asdict(a) == [id |-> a.id, etag |-> a.etag, annotations |-> a.annotations]

\* synapseclient.annotations._convert_to_annotations_list: each value becomes
\* a typed list, {"type": ..., "value": [...]}
_convert_to_annotations_list(annos) ==
    [i \in 1..Len(annos) |->
        [k |-> annos[i].k,
         v |-> [type |-> IF annos[i].v.py \in {"int", "list:int"} THEN "LONG"
                         ELSE "STRING",
                value |-> IF annos[i].v.py \in {"list:int", "list:str"}
                          THEN annos[i].v.v
                          ELSE <<annos[i].v.v>>]]]

\* Synapse.get_client: the client passed in, else the one of the last login
LoginClient == "login_client"
get_client(client) == IF client = None THEN LoginClient ELSE client

\* json.dumps(value): JSON text, kept as the value it parses to
json_dumps(v) == JsonBody(v)

EntityUri(id) == <<"/", "e", "n", "t", "i", "t", "y", "/">> \o id
                    \o <<"/", "a", "n", "n", "o", "t", "a", "t", "i", "o", "n", "s", "2">>

Syn1 == <<"s", "y", "n", "1">>
Syn22 == <<"s", "y", "n", "2", "2">>

AnnotationValues ==
    { <<>>,
      <<[k |-> "foo", v |-> Str("bar")]>>,
      <<[k |-> "foo", v |-> List("str", <<"bar", "baz">>)]>>,
      <<[k |-> "n", v |-> IntV("7")]>>,
      <<[k |-> "foo", v |-> Str("bar")], [k |-> "n", v |-> List("int", <<"1", "2">>)]>> }

AnnotationRecords ==
    [id : {Syn1, Syn22}, etag : {"e1", "e2"}, annotations : AnnotationValues]

PutResponses == { [id |-> Syn1, etag |-> "e9", annotations |-> <<>>],
                  [id |-> Syn22, etag |-> "e9", annotations |-> <<>>] }
NotReturned == [id |-> <<>>, etag |-> None, annotations |-> <<>>]
PutErrors == {"SynapseHTTPError", "ConnectError"}

\* the body built from the annotations as given, without the conversion
PutCall_raw(a, client, ctx) ==
    [client |-> get_client(client),
     uri |-> EntityUri(a.id),
     body |-> json_dumps([id |-> a.id, etag |-> a.etag,
                          annotations |-> asdict(a).annotations]),
     opentelemetry_context |-> ctx]

\* lines 33-47: the restPUT call set_annotations makes
PutCall(a, client, ctx) ==
    LET annotations_dict == asdict(a)
        synapse_annotations ==
            _convert_to_annotations_list(annotations_dict.annotations)
    IN [client |-> get_client(client),
        uri |-> EntityUri(a.id),
        body |-> json_dumps([id |-> a.id, etag |-> a.etag,
                             annotations |-> synapse_annotations]),
        opentelemetry_context |-> ctx]

\* the PUT issued a second time
SetAnnotations_twice ==
    /\ apc = "call"
    /\ puts' = puts \o << PutCall(annotations, synapse_client, opentelemetry_context),
                          PutCall(annotations, synapse_client, opentelemetry_context) >>
    /\ apc' = "put"
    /\ UNCHANGED <<annotations, synapse_client, opentelemetry_context,
                   put_response, aresult, aerr, scriptVars>>

\* set_annotations up to the blocking restPUT
SetAnnotations ==
    /\ apc = "call"
    /\ puts' = Append(puts, PutCall(annotations, synapse_client,
                                    opentelemetry_context))
    /\ apc' = "put"
    /\ UNCHANGED <<annotations, synapse_client, opentelemetry_context,
                   put_response, aresult, aerr, scriptVars>>

\* restPUT returns the server's response, which set_annotations returns
RestPutReturns ==
    /\ apc = "put"
    /\ \E r \in PutResponses : put_response' = r /\ aresult' = r
    /\ apc' = "returned"
    /\ UNCHANGED <<annotations, synapse_client, opentelemetry_context, puts, aerr,
                   scriptVars>>

\* restPUT raises; set_annotations has no handler
RestPutRaises ==
    /\ apc = "put"
    /\ \E e \in PutErrors : aerr' = e
    /\ apc' = "raised"
    /\ UNCHANGED <<annotations, synapse_client, opentelemetry_context, puts,
                   put_response, aresult, scriptVars>>

----------------------------------------------------------------------------
(* Specifications *)

AnnIdle ==
    /\ annotations = [id |-> <<>>, etag |-> None, annotations |-> <<>>]
    /\ synapse_client = None
    /\ opentelemetry_context = None /\ apc = "idle" /\ puts = <<>>
    /\ put_response = NotReturned /\ aresult = NotReturned /\ aerr = None

ScriptStart ==
    /\ pc = "loop"
    /\ start_at = 0
    /\ issues_by_type = <<>>
    /\ requests = <<>>
    /\ response = NoResponse
    /\ pages = <<>>
    /\ result = <<>>
    /\ err = NoError
    /\ out = <<>>
    /\ printed = 0

Configured == <<"u", ":", "t">>

\* Line 45 ships with the empty string and lines 40-44 tell the user to put
\* "username:token" there: the script runs in either configuration.
\* main against an endpoint that may answer anything
Init ==
    /\ sample_string \in {<<>>, Configured}
    /\ format_type \in {"github", "rst", "md"}
    /\ server = "any"
    /\ held = <<>>
    /\ ScriptStart
    /\ AnnIdle

Next == SendRequest \/ Respond \/ HandleResponse \/ PrintGroup \/ MainExit

Spec == Init /\ [][Next]_vars

\* main with credentials against an endpoint holding a finite list
InitFinite ==
    /\ sample_string = Configured
    /\ format_type \in {"github", "rst", "md"}
    /\ server = "list"
    /\ held \in SeqsUpTo(Issues, MaxN)
    /\ ScriptStart
    /\ AnnIdle

NextFinite ==
    SendRequest \/ RespondFromList \/ HandleResponse \/ PrintGroup \/ MainExit

\* _get_issues runs on whenever it can (it is sequential and never waits for
\* anything but the response), and the endpoint answers every request
SpecFinite ==
    /\ InitFinite /\ [][NextFinite]_vars
    /\ WF_vars(SendRequest) /\ WF_vars(RespondFromList)
    /\ WF_vars(HandleResponse)

\* one call of set_annotations
InitAnn ==
    /\ annotations \in AnnotationRecords
    /\ synapse_client \in {None, "client_a"}
    /\ opentelemetry_context \in {None, "ctx_1", "ctx_2"}
    /\ apc = "call"
    /\ puts = <<>>
    /\ put_response = NotReturned
    /\ aresult = NotReturned
    /\ aerr = None
    /\ sample_string = <<>>
    /\ format_type = "md"
    /\ server = "any"
    /\ held = <<>>
    /\ ScriptStart

NextAnn == SetAnnotations \/ RestPutReturns \/ RestPutRaises

SpecAnn == InitAnn /\ [][NextAnn]_vars

\* a run of main and a call of set_annotations, which share no state
InitAll ==
    /\ sample_string \in {<<>>, Configured}
    /\ format_type = "github"
    /\ server = "any"
    /\ held = <<>>
    /\ ScriptStart
    /\ annotations \in { r \in AnnotationRecords :
                             r.id = Syn1 /\ r.etag = "e1" /\ Len(r.annotations) = 1 }
    /\ synapse_client = None
    /\ opentelemetry_context = "ctx_1"
    /\ apc = "call"
    /\ puts = <<>>
    /\ put_response = NotReturned
    /\ aresult = NotReturned
    /\ aerr = None

NextAll == Next \/ NextAnn

SpecAll == InitAll /\ [][NextAll]_vars

----------------------------------------------------------------------------
(* Properties *)

\* _get_issues has returned to main
Returned == pc \in {"print", "exit"}

RECURSIVE Flatten(_)
Flatten(ps) == IF ps = <<>> THEN <<>> ELSE Head(ps) \o Flatten(Tail(ps))

RECURSIVE SumLen(_)
SumLen(ps) == IF ps = <<>> THEN 0 ELSE Len(Head(ps)) + SumLen(Tail(ps))

TypeOf(issue) == issue.fields.issuetype.name

OfType(is, t) == LET Test(x) == TypeOf(x) = t IN SelectSeq(is, Test)

\* C1: when the endpoint has sent non-empty 200 pages and then an empty one,
\* the mapping returned has exactly the type names of the issues received as
\* keys, in strictly ascending order, and each value is the sequence of the
\* issues of that type in arrival order (page order, then position); it
\* returns after no other sequence of pages.
C1_GroupedSortedUnion ==
    Returned =>
        LET all == Flatten(pages)
        IN /\ Len(pages) >= 1
           /\ pages[Len(pages)] = <<>>
           /\ \A p \in 1..Len(pages) - 1 : pages[p] /= <<>>
           /\ { result[i].k : i \in 1..Len(result) }
                  = { TypeOf(all[i]) : i \in 1..Len(all) }
           /\ \A i \in 1..Len(result) - 1 : StrLess(result[i].k, result[i + 1].k)
           /\ \A i \in 1..Len(result) : result[i].v = OfType(all, result[i].k)

\* three pages arrived, Task before Bug, and one group holds two issues
C1_Witness ==
    /\ Returned
    /\ Len(pages) >= 3
    /\ TypeOf(pages[1][1]) = Task
    /\ \E i \in 1..Len(result) : result[i].k = Bug
    /\ \E i \in 1..Len(result) : Len(result[i].v) = 2

\* C2: with an empty credential string no request is ever sent and the only
\* way on is the RuntimeError.
C2_NoCredentialsNoRequest ==
    sample_string = <<>> =>
        /\ requests = <<>>
        /\ pc \in {"loop", "raised"}
        /\ pc = "raised" => err.exc = "RuntimeError"

C2_Witness == sample_string = <<>> /\ pc = "raised" /\ err.exc = "RuntimeError"

\* C3: whenever a page request was answered with a status other than 200,
\* whatever the body, _get_issues raises a RuntimeError whose message holds
\* the status code and the body text, and returns nothing.
C3_NonSuccessRaisesStatusAndBody ==
    (requests /= <<>> /\ pc \notin {"get", "got"} /\ response.status_code /= 200) =>
        /\ pc = "raised"
        /\ err.exc = "RuntimeError"
        /\ Len(err.msg) = 3
        /\ err.msg[2] = response.status_code
        /\ err.msg[3] = response.body
        /\ result = <<>>

\* C9: the offset of the i-th request is the number of issues in the i-1
\* pages before it (so the first is 0 and offsets never decrease), and the
\* groups accumulated so far hold exactly start_at issues.
C9_OffsetIsIssuesReceived ==
    /\ \A i \in 1..Len(requests) :
           requests[i].startAt = SumLen(SubSeq(pages, 1, i - 1))
    /\ \A i \in 1..Len(requests) - 1 :
           /\ requests[i].startAt <= requests[i + 1].startAt
           /\ requests[i + 1].startAt - requests[i].startAt = Len(pages[i])
    /\ SumLen(Keys([i \in 1..Len(issues_by_type) |->
                       [k |-> issues_by_type[i].v, v |-> 0]])) = start_at
    /\ pc = "loop" => start_at = SumLen(pages)

\* three requests, the second page longer than one issue
C9_Witness ==
    /\ Len(requests) = 3
    /\ requests[2].startAt = 1
    /\ requests[3].startAt = 3

----------------------------------------------------------------------------
(* The printed text, read back as lines *)

\* positions of the newlines of s, ascending
NewlinePos(s) ==
    LET nl == { i \in 1..Len(s) : s[i] = "\n" }
    IN [k \in 1..Cardinality(nl) |->
           CHOOSE i \in nl : Cardinality({ j \in nl : j < i }) = k - 1]

\* the lines of a text in which every line ends with a newline
Lines(s) ==
    LET pos == NewlinePos(s)
    IN [k \in 1..Len(pos) |->
           SubSeq(s, (IF k = 1 THEN 0 ELSE pos[k - 1]) + 1, pos[k] - 1)]

HasSub(l, sub) ==
    \E i \in 1..(Len(l) - Len(sub) + 1) : SubSeq(l, i, i + Len(sub) - 1) = sub

IsDashRow(l) == l /= <<>> /\ \A i \in 1..Len(l) : l[i] = "-"

\* the heading the documentation of the formats calls for
ExpectedTitle(t) ==
    IF t = <<"B", "u", "g">> THEN <<"B", "u", "g", " ", "F", "i", "x", "e", "s">>
    ELSE IF t = <<"S", "t", "o", "r", "y">> THEN <<"S", "t", "o", "r", "i", "e", "s">>
    ELSE t \o <<"s">>

ExpectedHeading(t, fmt) ==
    IF fmt = "md" THEN <<"#", "#", "#", " ">> \o ExpectedTitle(t)
    ELSE ExpectedTitle(t)

BrowseUrl(key) == <<"h", "t", "t", "p", "s", ":", "/", "/", "s", "a", "g", "e", "b", "i", "o", "n", "e", "t", "w", "o", "r", "k", "s", ".", "j", "i", "r", "a", ".", "c", "o", "m", "/", "b", "r", "o", "w", "s", "e", "/">> \o key

\* rows of the heading block, rows of one issue, rows of a whole group
HeadRows(fmt) == IF fmt = "md" THEN 1 ELSE 2
RowsPerIssue(fmt) == IF fmt = "rst" THEN 2 ELSE 1
GroupRows(g) == HeadRows(format_type) + Len(result[g].v) * RowsPerIssue(format_type) + 1

RECURSIVE RowsUpTo(_)
RowsUpTo(g) == IF g = 0 THEN 0 ELSE RowsUpTo(g - 1) + GroupRows(g)

GroupStart(g) == RowsUpTo(g - 1) + 1

RECURSIVE IssuesUpTo(_)
IssuesUpTo(g) == IF g = 0 THEN 0 ELSE IssuesUpTo(g - 1) + Len(result[g].v)

\* the rows that are neither a heading, nor an underline, nor blank
EntryRows(L) ==
    { i \in 1..Len(L) :
        /\ L[i] /= <<>>
        /\ ~IsDashRow(L[i])
        /\ \A g \in 1..Len(result) : L[i] /= ExpectedHeading(result[g].k, format_type) }

\* first row that is the heading of type t, 0 when there is none
HeadingRow(L, t) ==
    LET rows == { i \in 1..Len(L) : L[i] = ExpectedHeading(t, format_type) }
    IN IF rows = {} THEN 0 ELSE CHOOSE i \in rows : \A j \in rows : i <= j

\* the rows that show an issue of type t
RowsOfType(L, t) ==
    { i \in 1..Len(L) :
        \E p \in 1..Len(pages) : \E n \in 1..Len(pages[p]) :
            /\ TypeOf(pages[p][n]) = t
            /\ \/ HasSub(L[i], pages[p][n].key)
               \/ HasSub(L[i], pages[p][n].fields.summary) }

TypesReceived ==
    { TypeOf(pages[p][n]) : <<p, n>> \in
        { pn \in (1..Len(pages)) \X (1..MaxPageLen) : pn[2] <= Len(pages[pn[1]]) } }

\* C4: the groups are printed in ascending order of type name whatever order
\* the types arrived in: the heading of a smaller type comes before the
\* heading of a larger one, and all rows of the smaller type's issues lie
\* between the two headings; when main is done every type has its heading.
C4_GroupsInTypeOrder ==
    LET L == Lines(out)
    IN /\ pc = "exit" => \A t \in TypesReceived : HeadingRow(L, t) > 0
       /\ \A t \in TypesReceived :
             \A i \in RowsOfType(L, t) : 0 < HeadingRow(L, t) /\ HeadingRow(L, t) < i
       /\ \A t1, t2 \in TypesReceived :
             (StrLess(t1, t2) /\ HeadingRow(L, t2) > 0) =>
                 /\ 0 < HeadingRow(L, t1)
                 /\ HeadingRow(L, t1) < HeadingRow(L, t2)
                 /\ \A i \in RowsOfType(L, t1) : i < HeadingRow(L, t2)

\* a Task arrived first, a Bug later, and both groups are printed
C4_Witness ==
    /\ pc = "exit"
    /\ pages[1] /= <<>>
    /\ TypeOf(pages[1][1]) = Task
    /\ Bug \in TypesReceived
    /\ HeadingRow(Lines(out), Bug) = 1

\* C5: the heading block of every printed group is the title ("Bug Fixes"
\* for Bug, "Stories" for Story, else the type followed by "s"), for md
\* prefixed by "### " and followed by no underline, for rst and github
\* followed by a row of dashes as long as the heading row.
C5_HeadingBlock ==
    LET L == Lines(out)
    IN \A g \in 1..printed :
          /\ L[GroupStart(g)] = ExpectedHeading(result[g].k, format_type)
          /\ format_type = "md" => ~IsDashRow(L[GroupStart(g) + 1])
          /\ format_type \in {"rst", "github"} =>
                /\ IsDashRow(L[GroupStart(g) + 1])
                /\ Len(L[GroupStart(g) + 1]) = Len(L[GroupStart(g)])

\* the three groups Bug, Story, Task are printed with underlines
C5_Witness ==
    /\ printed = 3
    /\ format_type = "rst"
    /\ result[2].k = Story

\* C6 as stated: one row per issue, so that the rows that are neither
\* heading, underline nor blank are as many as the issues printed.
C6_OneLinePerIssue ==
    Cardinality(EntryRows(Lines(out))) = IssuesUpTo(printed)

EntryHead(issue, fmt) ==
    IF fmt = "rst"
    THEN <<"-", " ", " ", "[", Grave>> \o issue.key \o <<" ", "<">>
           \o BrowseUrl(issue.key) \o <<">", Grave, "_", "_", "]", " ", "-">>
    ELSE <<"-", " ", " ", "\\", "[", "[">> \o issue.key \o <<"]", "(">>
           \o BrowseUrl(issue.key) \o <<")", "\\", "]", " ", "-", " ">>
           \o issue.fields.summary

\* C6, amended: one entry per issue, in the group's order, built from the
\* format's template with key, browse URL and summary; the entry is one row
\* for github and md and two rows for rst (the rst template breaks the line
\* before the summary); one blank row ends each group and nothing else is
\* printed; the rows that are neither heading, underline nor blank are as
\* many as the issues for github and md and twice as many for rst.
C6_OneEntryPerIssue ==
    LET L == Lines(out)
        rpi == RowsPerIssue(format_type)
    IN /\ Len(L) = RowsUpTo(printed)
       /\ Cardinality(EntryRows(L)) = IssuesUpTo(printed) * rpi
       /\ \A g \in 1..printed :
             /\ L[GroupStart(g) + GroupRows(g) - 1] = <<>>
             /\ \A j \in 1..Len(result[g].v) :
                   LET row == GroupStart(g) + HeadRows(format_type) + (j - 1) * rpi
                   IN /\ L[row] = EntryHead(result[g].v[j], format_type)
                      /\ format_type = "rst" =>
                            L[row + 1] = <<" ", " ", " ">>
                                            \o result[g].v[j].fields.summary

\* rst output with two groups, one of them with two issues
C6_Witness ==
    /\ pc = "exit"
    /\ format_type = "rst"
    /\ printed = 2
    /\ Len(result[2].v) = 2

\* C7: once set_annotations has made its call there is exactly one PUT, to
\* /entity/<id>/annotations2, whose body has exactly the fields id, etag and
\* annotations (the converted mapping) and which carries the caller's trace
\* context; the record passed in never changes; the value returned is what
\* the PUT returned.
C7_Put ==
    /\ apc /= "call" =>
          /\ Len(puts) = 1
          /\ puts[1].uri = <<"/", "e", "n", "t", "i", "t", "y", "/">> \o annotations.id
                              \o <<"/", "a", "n", "n", "o", "t", "a", "t", "i", "o", "n", "s", "2">>
          /\ IsJson(puts[1].body)
          /\ DOMAIN json_loads(puts[1].body) = {"id", "etag", "annotations"}
          /\ json_loads(puts[1].body).id = annotations.id
          /\ json_loads(puts[1].body).etag = annotations.etag
          /\ json_loads(puts[1].body).annotations
                = _convert_to_annotations_list(annotations.annotations)
          /\ puts[1].opentelemetry_context = opentelemetry_context
    /\ apc = "returned" => aresult = put_response /\ aresult \in PutResponses

C7_OnePutWithRecord == [][C7_Put' /\ annotations' = annotations]_vars

C7_Witness ==
    /\ apc = "returned"
    /\ Len(annotations.annotations) = 2
    /\ opentelemetry_context = "ctx_2"
    /\ Len(puts) = 1

\* C8: nothing is retried and nothing partial is delivered
C8_State ==
    /\ \A i, j \in 1..Len(requests) : i < j => requests[i] /= requests[j]
    /\ Len(puts) <= 1
    /\ pc = "raised" => result = <<>> /\ out = <<>> /\ printed = 0
    /\ apc = "raised" => Len(puts) = 1 /\ aresult = NotReturned /\ aerr \in PutErrors

\* C8: no request and no PUT is sent twice; once a page request has failed
\* no further request is sent, nothing is returned and nothing is printed;
\* a failed PUT leaves set_annotations with the error and no second PUT.
C8_NoRetryNoPartial ==
    [][ /\ C8_State'
        /\ pc = "raised" => UNCHANGED <<pc, requests, result, out, err>>
        /\ apc = "raised" => UNCHANGED <<apc, puts, aresult, aerr>> ]_vars

\* a page was accepted before the search failed, and the PUT failed too
C8_Witness ==
    /\ pc = "raised"
    /\ Len(pages) >= 1
    /\ issues_by_type /= <<>>
    /\ apc = "raised"

NonEmptyPages == Cardinality({ i \in 1..Len(pages) : pages[i] /= <<>> })

\* C10: against an endpoint that holds a finite list and serves a non-empty
\* page below its end and an empty page from there on, _get_issues
\* eventually returns; when it has returned, the last page it received is
\* the first empty one, it has received the whole list, and it has sent one
\* request per non-empty page plus one.
C10_TerminatesAtFirstEmptyPage ==
    /\ <>Returned
    /\ [](Returned =>
            /\ pages[Len(pages)] = <<>>
            /\ \A i \in 1..Len(pages) - 1 : pages[i] /= <<>>
            /\ Len(requests) = NonEmptyPages + 1
            /\ start_at = Len(held))

C10_Witness ==
    /\ Returned
    /\ Len(held) = MaxN
    /\ Len(requests) >= 3

====
